---------------------------- MODULE Spec2Model ----------------------------
(***************************************************************************)
(* A model of donation-analytics.py: the record loop of main, moldRecord,  *)
(* isValid, isRepeat, emitStats and findPercentileValue.                   *)
(*                                                                         *)
(* A Python str is a sequence of one-character strings, so that slicing,   *)
(* concatenation and the character tests of the code are computed and not  *)
(* assumed.  A csv row is a sequence of such fields.                       *)
(***************************************************************************)
EXTENDS Integers, Sequences, FiniteSets, TLC

(***************************************************************************)
(* Bounds of the model.                                                    *)
(***************************************************************************)
\* Longest input stream that is explored.
MaxRecs == 4
\* Longest list findPercentileValue is applied to on its own.
MaxListLen == 25

(***************************************************************************)
(* Characters and the str methods the code uses.                           *)
(***************************************************************************)
Digits == {"0", "1", "2", "3", "4", "5", "6", "7", "8", "9"}

Letters == {"A", "B", "C", "D", "O", "X", "a", "b", "c", "e", "E",
            "i", "n", "f", "I", "N", "F"}

Whitespace == {" "}

DigitValue(c) ==
    CASE c = "0" -> 0 [] c = "1" -> 1 [] c = "2" -> 2 [] c = "3" -> 3
      [] c = "4" -> 4 [] c = "5" -> 5 [] c = "6" -> 6 [] c = "7" -> 7
      [] c = "8" -> 8 [] c = "9" -> 9

Lower(c) ==
    CASE c = "A" -> "a" [] c = "B" -> "b" [] c = "C" -> "c" [] c = "D" -> "d"
      [] c = "E" -> "e" [] c = "F" -> "f" [] c = "I" -> "i" [] c = "N" -> "n"
      [] c = "O" -> "o" [] c = "X" -> "x" [] OTHER -> c

LowerStr(s) == [i \in 1..Len(s) |-> Lower(s[i])]

AllIn(s, S) == \A i \in 1..Len(s) : s[i] \in S

\* str.isspace(), str.isalnum(), str.isdecimal(): false on the empty string.
isspace(s) == Len(s) > 0 /\ AllIn(s, Whitespace)

isalnum(s) == Len(s) > 0 /\ AllIn(s, Digits \cup Letters)

isdecimal(s) == Len(s) > 0 /\ AllIn(s, Digits)

\* s[a:b] of Python, 0-based and clipped to the string.
Slice(s, a, b) ==
    LET hi == IF b < Len(s) THEN b ELSE Len(s)
    IN  IF a >= hi THEN <<>> ELSE SubSeq(s, a + 1, hi)

\* str.strip() as int() and float() apply it to their argument.
RECURSIVE LStrip(_)
LStrip(s) == IF Len(s) > 0 /\ s[1] \in Whitespace THEN LStrip(Tail(s)) ELSE s

RECURSIVE RStrip(_)
RStrip(s) ==
    IF Len(s) > 0 /\ s[Len(s)] \in Whitespace
    THEN RStrip(SubSeq(s, 1, Len(s) - 1))
    ELSE s

Strip(s) == RStrip(LStrip(s))

Unsigned(s) == IF Len(s) > 0 /\ s[1] \in {"+", "-"} THEN Tail(s) ELSE s

RECURSIVE DecimalValue(_)
DecimalValue(s) ==
    IF Len(s) = 0 THEN 0
    ELSE 10 * DecimalValue(SubSeq(s, 1, Len(s) - 1)) + DigitValue(s[Len(s)])

(***************************************************************************)
(* int(s) and float(s) on a str.                                           *)
(***************************************************************************)
\* int(s) raises ValueError unless s is  ws* [+-] digit+ ws*.
IntParses(s) == isdecimal(Unsigned(Strip(s)))

IntValue(s) ==
    LET t == Strip(s)
        v == DecimalValue(Unsigned(t))
    IN  IF t[1] = "-" THEN 0 - v ELSE v

\* The exponent of a float literal: [eE] [+-] digit+
IsExponent(s) ==
    /\ Len(s) > 0
    /\ s[1] \in {"e", "E"}
    /\ isdecimal(Unsigned(Tail(s)))

\* digit+ [. digit*]  or  . digit+
IsMantissa(s) ==
    \E d \in 0..Len(s) :
        /\ AllIn(SubSeq(s, 1, d), Digits)
        /\ \/ d = Len(s) /\ d > 0
           \/ /\ d < Len(s)
              /\ s[d + 1] = "."
              /\ AllIn(SubSeq(s, d + 2, Len(s)), Digits)
              /\ (d > 0 \/ d + 1 < Len(s))

IsFloatNumber(s) ==
    \E k \in 1..Len(s) :
        /\ IsMantissa(SubSeq(s, 1, k))
        /\ (k = Len(s) \/ IsExponent(SubSeq(s, k + 1, Len(s))))

IsNanLiteral(s) == LowerStr(s) = <<"n", "a", "n">>

IsInfLiteral(s) ==
    LowerStr(s) \in {<<"i", "n", "f">>,
                     <<"i", "n", "f", "i", "n", "i", "t", "y">>}

\* float(s) returns a value (no ValueError).
FloatParses(s) ==
    LET t == Unsigned(Strip(s))
    IN  IsFloatNumber(t) \/ IsNanLiteral(t) \/ IsInfLiteral(t)

FloatIsNan(s) == IsNanLiteral(Unsigned(Strip(s)))

isRealNumber(s) == FloatParses(s) /\ ~FloatIsNan(s)

(***************************************************************************)
(* datetime.datetime.strptime(s, '%m%d%Y').  The format compiles to the    *)
(* regular expression                                                      *)
(*   (1[0-2]|0[1-9]|[1-9])(3[01]|[12]\d|0[1-9]|[1-9]| [1-9])(\d\d\d\d)     *)
(* which is matched at the start of s with backtracking; the first match   *)
(* in the order of the alternatives is taken, and it is a ValueError when  *)
(* that match does not end at the end of s or names no calendar date.      *)
(***************************************************************************)
NonZeroDigits == Digits \ {"0"}

MonthAt(s, ml) ==
    /\ Len(s) >= ml
    /\ IF ml = 2
       THEN \/ s[1] = "1" /\ s[2] \in {"0", "1", "2"}
            \/ s[1] = "0" /\ s[2] \in NonZeroDigits
       ELSE s[1] \in NonZeroDigits

DayAt(s, pos, dl) ==
    /\ Len(s) >= pos + dl
    /\ IF dl = 2
       THEN \/ s[pos + 1] = "3" /\ s[pos + 2] \in {"0", "1"}
            \/ s[pos + 1] \in {"1", "2"} /\ s[pos + 2] \in Digits
            \/ s[pos + 1] = "0" /\ s[pos + 2] \in NonZeroDigits
            \/ s[pos + 1] = " " /\ s[pos + 2] \in NonZeroDigits
       ELSE s[pos + 1] \in NonZeroDigits

YearAt(s, pos) ==
    /\ Len(s) >= pos + 4
    /\ AllIn(SubSeq(s, pos + 1, pos + 4), Digits)

DateMatches(s, ml, dl) ==
    MonthAt(s, ml) /\ DayAt(s, ml, dl) /\ YearAt(s, ml + dl)

\* The widths of month and day in the order the regex engine tries them.
DateSplits == << <<2, 2>>, <<2, 1>>, <<1, 2>>, <<1, 1>> >>

IsLeapYear(y) == (y % 4 = 0) /\ (y % 100 # 0 \/ y % 400 = 0)

DaysInMonth(y, m) ==
    IF m = 2 THEN (IF IsLeapYear(y) THEN 29 ELSE 28)
    ELSE IF m \in {4, 6, 9, 11} THEN 30 ELSE 31

\* TRUE iff strptime returns a date, FALSE iff it raises ValueError.
strptime(s) ==
    LET hits == {i \in 1..Len(DateSplits) :
                    DateMatches(s, DateSplits[i][1], DateSplits[i][2])}
    IN  /\ hits # {}
        /\ LET i  == CHOOSE h \in hits : \A g \in hits : h <= g
               ml == DateSplits[i][1]
               dl == DateSplits[i][2]
               m  == DecimalValue(SubSeq(s, 1, ml))
               d  == DecimalValue(LStrip(SubSeq(s, ml + 1, ml + dl)))
               y  == DecimalValue(SubSeq(s, ml + dl + 1, ml + dl + 4))
           IN  /\ ml + dl + 4 = Len(s)
               /\ y >= 1
               /\ d <= DaysInMonth(y, m)

(***************************************************************************)
(* isValid.  The result is what the call does: it returns True or False,   *)
(* or int(record.amount) raises a ValueError that nothing catches; msg is  *)
(* the reason written to the log file when logVerbose is set.              *)
(***************************************************************************)
Verdict(res, exc, why) == [result |-> res, raises |-> exc, msg |-> why]

isValid(record) ==
    IF Len(record.otherID) # 0 /\ ~isspace(record.otherID)
    THEN Verdict(FALSE, FALSE, "OTHER_ID not empty")
    ELSE IF \/ Len(record.recipient) = 0
            \/ isspace(record.recipient)
            \/ ~isalnum(record.recipient)
    THEN Verdict(FALSE, FALSE, "CMTE_ID missing or empty")
    ELSE IF Len(record.name) = 0 \/ isspace(record.name)
    THEN Verdict(FALSE, FALSE, "NAME blank")
    ELSE IF \/ Len(record.fullZipCode) < 5
            \/ ~isdecimal(Slice(record.fullZipCode, 0, 5))
    THEN Verdict(FALSE, FALSE, "ZIP_CODE malformed")
    ELSE IF Len(record.date) = 0 \/ isspace(record.date)
    THEN Verdict(FALSE, FALSE, "TRANSACTION_DT empty")
    ELSE IF \/ isspace(record.amount)
            \/ Len(record.amount) = 0
            \/ ~isRealNumber(record.amount)
    THEN Verdict(FALSE, FALSE, "TRANSACTION_AMT malformed")
    ELSE IF ~IntParses(record.amount)
    THEN Verdict(FALSE, TRUE, "ValueError")
    ELSE IF IntValue(record.amount) <= 0
    THEN Verdict(FALSE, FALSE, "TRANSACTION_AMT malformed")
    ELSE IF ~strptime(record.date)
    THEN Verdict(FALSE, FALSE, "TRANSACTION_DT malformed")
    ELSE Verdict(TRUE, FALSE, "")

(***************************************************************************)
(* IEEE 754 binary64 arithmetic, as far as findPercentileValue uses it:    *)
(* percentile/100.0, the product with n, and math.ceil.  A positive double *)
(* is [m, e]: m is its 53-bit significand, most significant bit first, and *)
(* its value is m * 2^(-e).  Both operations round to nearest, ties to     *)
(* even.                                                                   *)
(***************************************************************************)
MantissaBits == 53

\* Integers of more than 31 bits are held as limbs of LimbBits bits.
LimbBits == 16

RECURSIVE Pow2(_)
Pow2(k) ==
    IF k = 0 THEN 1
    ELSE LET h == Pow2(k \div 2)
         IN  h * h * (IF k % 2 = 1 THEN 2 ELSE 1)

RECURSIVE Pow2Mod(_, _)
\* 2^k mod d
Pow2Mod(k, d) ==
    IF k = 0 THEN 1 % d
    ELSE LET h == Pow2Mod(k \div 2, d)
         IN  (h * h * (IF k % 2 = 1 THEN 2 ELSE 1)) % d

RECURSIVE BitsValue(_)
BitsValue(b) ==
    IF Len(b) = 0 THEN 0
    ELSE IF Len(b) = 1 THEN b[1]
    ELSE LET h == Len(b) \div 2
         IN  BitsValue(SubSeq(b, 1, h)) * Pow2(Len(b) - h)
               + BitsValue(SubSeq(b, h + 1, Len(b)))

\* b + 1; one bit longer when b is all ones.
IncBits(b) ==
    LET zeros == {i \in 1..Len(b) : b[i] = 0}
    IN  IF zeros = {}
        THEN [i \in 1..(Len(b) + 1) |-> IF i = 1 THEN 1 ELSE 0]
        ELSE LET z == CHOOSE i \in zeros : \A j \in zeros : j <= i
             IN  [i \in 1..Len(b) |->
                     IF i < z THEN b[i] ELSE IF i = z THEN 1 ELSE 0]

\* Round the exact value (bits + rest) * 2^(-e), where rest in [0, 1) is a
\* fraction of the last place: up tells that rest > 1/2, tie that rest = 1/2.
RoundBits(bits, e, up, tie) ==
    IF up \/ (tie /\ bits[Len(bits)] = 1)
    THEN LET inc == IncBits(bits)
         IN  IF Len(inc) > Len(bits)
             THEN [m |-> SubSeq(inc, 1, Len(bits)), e |-> e - 1]
             ELSE [m |-> inc, e |-> e]
    ELSE [m |-> bits, e |-> e]

\* The i-th bit after the binary point of a/d, and what long division has
\* left after i bits, for 0 < a < d.
FracBit(a, d, i) == (2 * ((a * Pow2Mod(i - 1, d)) % d)) \div d

FracRem(a, d, i) == (a * Pow2Mod(i, d)) % d

\* float(a) / float(d) for integers 0 < a <= d.
FloatDiv(a, d) ==
    IF a = d THEN [m |-> [i \in 1..MantissaBits |-> IF i = 1 THEN 1 ELSE 0],
                   e |-> MantissaBits - 1]
    ELSE LET z   == CHOOSE k \in 0..d :
                        /\ FracBit(a, d, k + 1) = 1
                        /\ \A j \in 1..k : FracBit(a, d, j) = 0
             rem == FracRem(a, d, z + MantissaBits)
         IN  RoundBits([i \in 1..MantissaBits |-> FracBit(a, d, z + i)],
                       z + MantissaBits, 2 * rem > d, 2 * rem = d)

\* The limbs of the integer with bits b, most significant first, and back.
ToLimbs(b) ==
    LET k   == (Len(b) + LimbBits - 1) \div LimbBits
        pad == k * LimbBits - Len(b)
    IN  [j \in 1..k |->
            BitsValue(SubSeq(b, IF j = 1 THEN 1 ELSE (j - 1) * LimbBits - pad + 1,
                             j * LimbBits - pad))]

FromLimbs(limbs) ==
    [i \in 1..(Len(limbs) * LimbBits) |->
        (limbs[(i - 1) \div LimbBits + 1]
            \div Pow2(LimbBits - 1 - ((i - 1) % LimbBits))) % 2]

StripZeros(b) ==
    LET ones == {i \in 1..Len(b) : b[i] = 1}
    IN  IF ones = {} THEN <<>>
        ELSE SubSeq(b, CHOOSE i \in ones : \A j \in ones : i <= j, Len(b))

RECURSIVE MulLimbs(_, _, _, _)
\* limbs * n for an integer 0 < n < 2^15, by the schoolbook method.
MulLimbs(limbs, n, carry, acc) ==
    IF Len(limbs) = 0 THEN <<carry>> \o acc
    ELSE LET v == limbs[Len(limbs)] * n + carry
         IN  MulLimbs(SubSeq(limbs, 1, Len(limbs) - 1), n,
                      v \div Pow2(LimbBits), <<v % Pow2(LimbBits)>> \o acc)

\* x * float(n) for a positive double x and an integer n > 0.
FloatMul(x, n) ==
    LET prod == StripZeros(FromLimbs(MulLimbs(ToLimbs(x.m), n, 0, <<>>)))
        drop == Len(prod) - MantissaBits
        lost == SubSeq(prod, MantissaBits + 1, Len(prod))
    IN  IF drop = 0 THEN [m |-> prod, e |-> x.e]
        ELSE RoundBits(SubSeq(prod, 1, MantissaBits), x.e - drop,
                       lost[1] = 1 /\ \E i \in 2..drop : lost[i] = 1,
                       lost[1] = 1 /\ \A i \in 2..drop : lost[i] = 0)

\* math.ceil(y) for a positive double y below 2^31.
FloatCeil(y) ==
    LET ib   == IF y.e >= MantissaBits THEN 0 ELSE MantissaBits - y.e
        frac == SubSeq(y.m, ib + 1, MantissaBits)
    IN  BitsValue(SubSeq(y.m, 1, ib))
          + (IF \E i \in 1..Len(frac) : frac[i] = 1 THEN 1 ELSE 0)

(***************************************************************************)
(* findPercentileValue: the value it returns, or the error it raises.      *)
(***************************************************************************)
Returned(v) == [raises |-> FALSE, value |-> v]

Raised == [raises |-> TRUE, value |-> 0]

\* math.ceil((percentile/100.0)*n) - 1, tabulated once for the list lengths
\* and percentiles that occur, since every call computes the same value.
PercentileIndexTable ==
    [pct \in 1..100 |->
        [n \in 1..(MaxListLen + 1) |->
            FloatCeil(FloatMul(FloatDiv(pct, 100), n)) - 1]]

\* The index is taken without the -1 that makes it 0-based.
PercentileIndexOneBased(pct, n) ==
    IF n = 0 THEN 0
    ELSE IF n <= MaxListLen + 1 THEN PercentileIndexTable[pct][n] + 1
    ELSE FloatCeil(FloatMul(FloatDiv(pct, 100), n))

PercentileIndex(pct, n) ==
    IF n = 0 THEN 0 - 1
    ELSE IF n <= MaxListLen + 1 THEN PercentileIndexTable[pct][n]
    ELSE FloatCeil(FloatMul(FloatDiv(pct, 100), n)) - 1

\* The range check of line 134 is left out: a percentile out of range picks
\* the last element of the list.
findPercentileValueUnchecked(sortedList, pct) ==
    IF pct <= 0 \/ pct > 100 THEN Returned(sortedList[Len(sortedList)])
    ELSE LET n   == Len(sortedList)
             idx == PercentileIndex(pct, n)
         IN  IF idx >= n \/ idx < 0 - n THEN Raised
             ELSE IF idx < 0 THEN Returned(sortedList[n + idx + 1])
             ELSE Returned(sortedList[idx + 1])

findPercentileValue(sortedList, pct) ==
    IF pct <= 0 \/ pct > 100 THEN Raised
    ELSE LET n   == Len(sortedList)
             idx == PercentileIndex(pct, n)
         IN  IF idx >= n \/ idx < 0 - n THEN Raised
             ELSE IF idx < 0 THEN Returned(sortedList[n + idx + 1])
             ELSE Returned(sortedList[idx + 1])

(***************************************************************************)
(* getColumnIDs: the header file of the FEC individual-contributions data, *)
(* which main reads once, and the positions of the selected columns.       *)
(***************************************************************************)
allColumns ==
    << "CMTE_ID", "AMNDT_IND", "RPT_TP", "TRANSACTION_PGI", "IMAGE_NUM",
       "TRANSACTION_TP", "ENTITY_TP", "NAME", "CITY", "STATE", "ZIP_CODE",
       "EMPLOYER", "OCCUPATION", "TRANSACTION_DT", "TRANSACTION_AMT",
       "OTHER_ID", "TRAN_ID", "FILE_NUM", "MEMO_CD", "MEMO_TEXT", "SUB_ID" >>

nAllColumns == Len(allColumns)

\* allColumns.index(aColumn), counted from 1.
colID(aColumn) == CHOOSE i \in 1..Len(allColumns) : allColumns[i] = aColumn

(***************************************************************************)
(* moldRecord: None, 0 (a comment line), a ValidRecord, or the ValueError  *)
(* of isValid passing through.                                             *)
(***************************************************************************)
Molded(t, why, did, gid, rcpt, zip, amt, yr) ==
    [tag |-> t, msg |-> why, donorID |-> did, groupID |-> gid,
     recipient |-> rcpt, zipCode |-> zip, amount |-> amt, year |-> yr]

NotMolded(t, why) == Molded(t, why, <<>>, <<>>, <<>>, <<>>, 0, <<>>)

\* Lines 219-220: the keys of the two dicts.
donorID(name, zipCode) == name \o zipCode

\* A group key that leaves the year out.
groupIDNoYear(recipient, zipCode, year) == recipient \o zipCode

groupID(recipient, zipCode, year) == recipient \o zipCode \o year

moldRecord(record) ==
    IF Len(record) = 0 THEN NotMolded("None", "blank line")
    ELSE IF /\ Len(record[1]) # 0
            /\ ~isspace(record[1])
            /\ record[1][1] = "#"
    THEN NotMolded("0", "commented out")
    ELSE IF Len(record) # nAllColumns
    THEN NotMolded("None", "missing fields")
    ELSE LET checkRecord ==
                 [otherID     |-> record[colID("OTHER_ID")],
                  name        |-> record[colID("NAME")],
                  fullZipCode |-> record[colID("ZIP_CODE")],
                  date        |-> record[colID("TRANSACTION_DT")],
                  recipient   |-> record[colID("CMTE_ID")],
                  amount      |-> record[colID("TRANSACTION_AMT")]]
             valid == isValid(checkRecord)
         IN  IF valid.raises THEN NotMolded("ValueError", valid.msg)
             ELSE IF valid.result
             THEN LET zipCode == Slice(checkRecord.fullZipCode, 0, 5)
                      year    == Slice(checkRecord.date, 4, 8)
                      amount  == IntValue(checkRecord.amount)
                  IN  Molded("ValidRecord", "",
                             donorID(checkRecord.name, zipCode),
                             groupID(checkRecord.recipient, zipCode, year),
                             checkRecord.recipient, zipCode, amount, year)
             ELSE NotMolded("None", valid.msg)

(***************************************************************************)
(* isRepeat                                                                *)
(***************************************************************************)
\* The year of the record is put on record before the record is classified.
isRepeatAfterRecording(record, donorMap, strict) ==
    LET recorded   == (IF record.donorID \in DOMAIN donorMap
                       THEN donorMap[record.donorID] ELSE {})
                          \cup {record.year}
        priorYears == recorded \ {record.year}
    IN  IF strict /\ priorYears = {} THEN FALSE ELSE TRUE

\* The -s option is taken as always set.
isRepeatAlwaysStrict(record, donorMap, strict) ==
    IF record.donorID \in DOMAIN donorMap
    THEN donorMap[record.donorID] \ {record.year} # {}
    ELSE FALSE

\* The -s option is ignored.
isRepeatNeverStrict(record, donorMap, strict) ==
    record.donorID \in DOMAIN donorMap

\* In strict mode the prior years are those of all donors on record.
isRepeatAnyDonor(record, donorMap, strict) ==
    IF strict
    THEN UNION {donorMap[d] : d \in DOMAIN donorMap} \ {record.year} # {}
    ELSE record.donorID \in DOMAIN donorMap

isRepeat(record, donorMap, strict) ==
    IF record.donorID \in DOMAIN donorMap
    THEN LET currentYear == {record.year}
             priorYears  == donorMap[record.donorID] \ currentYear
         IN  IF strict /\ priorYears = {} THEN FALSE ELSE TRUE
    ELSE FALSE

(***************************************************************************)
(* emitStats: list.sort() in place, then the line written to outFile, or   *)
(* the error of findPercentileValue, raised before anything is written.    *)
(***************************************************************************)
sort(donations) == SortSeq(donations, LAMBDA a, b : a < b)

emitStats(record, donations, tot, pct) ==
    LET sorted == sort(donations)
        cnt    == Len(sorted)
        pctl   == findPercentileValue(sorted, pct)
    IN  [donations |-> sorted,
         raises    |-> pctl.raises,
         emit      |-> [rcpt |-> record.recipient, zipCode |-> record.zipCode,
                        year |-> record.year, pctl |-> pctl.value,
                        tot  |-> tot, cnt |-> cnt]]

(***************************************************************************)
(* The rows the record file may hold.                                      *)
(***************************************************************************)
MkRow(cmte, name, zip, dt, amt, other) ==
    [i \in 1..nAllColumns |->
        CASE i = colID("CMTE_ID")         -> cmte
          [] i = colID("NAME")            -> name
          [] i = colID("ZIP_CODE")        -> zip
          [] i = colID("TRANSACTION_DT")  -> dt
          [] i = colID("TRANSACTION_AMT") -> amt
          [] i = colID("OTHER_ID")        -> other
          [] OTHER                        -> <<>>]

C00001 == <<"C", "0", "0", "0", "0", "1">>

C00002 == <<"C", "0", "0", "0", "0", "2">>

Zip11111 == <<"1", "1", "1", "1", "1">>

Jan2015 == <<"0", "1", "0", "1", "2", "0", "1", "5">>

Jan2016 == <<"0", "1", "0", "1", "2", "0", "1", "6">>

\* Donor A gives C00001 10 and 20 in 2015 and 30 in 2016, and C00002 5 in
\* 2015; donor B of the same zip code gives C00001 7 in 2015.
RowA2015a == MkRow(C00001, <<"A">>, Zip11111, Jan2015, <<"1", "0">>, <<>>)

RowA2015b == MkRow(C00001, <<"A">>, Zip11111, Jan2015, <<"2", "0">>, <<>>)

RowA2016 == MkRow(C00001, <<"A">>, Zip11111, Jan2016, <<"3", "0">>, <<>>)

RowA2015c == MkRow(C00002, <<"A">>, Zip11111, Jan2015, <<"5">>, <<>>)

RowB2015 == MkRow(C00001, <<"B">>, Zip11111, Jan2015, <<"7">>, <<>>)

\* csv.reader yields [] for a blank line.
RowBlank == <<>>

RowComment == << <<"#", "C", "0", "1">> >>

RowShort == <<C00001, <<"A">>, Zip11111>>

RowAmtAbc == MkRow(C00001, <<"A">>, Zip11111, Jan2015, <<"a", "b", "c">>, <<>>)

RowAmtFrac == MkRow(C00001, <<"A">>, Zip11111, Jan2015, <<"5", ".", "5">>, <<>>)

Rows ==
    {RowA2015a, RowA2015b, RowA2016, RowA2015c, RowB2015,
     RowBlank, RowComment, RowShort, RowAmtAbc, RowAmtFrac}

\* moldRecord depends on the row alone, so it is applied once to every row
\* the file may hold.
aRecords == [rec \in Rows |-> moldRecord(rec)]

\* The values of percentile.txt that are explored: one in (0, 100] and one
\* on either side of it.
Percentiles == {0, 50, 101}

(***************************************************************************)
(* The state of main.                                                      *)
(***************************************************************************)
VARIABLES
    percentile,       \* int(pctFile.readline().rstrip())
    strictRepeat,     \* the -s option
    donors,           \* donorID -> set of years
    repeatDonations,  \* groupID -> list of amounts
    repeatSum,        \* groupID -> sum of the amounts
    nRec, nValid, nInvalid,
    outFile,          \* the lines written so far
    logVerbose,       \* the -v option
    logFile,          \* the entries written to the log file so far
    pc,               \* "loop", "raised" (an exception left main), "done"
    consumed,         \* the rows the for loop has taken from records so far
    call, ret         \* argument and result of a function applied on its own

vars == <<percentile, strictRepeat, donors, repeatDonations, repeatSum,
          nRec, nValid, nInvalid, outFile, logVerbose, logFile, pc, consumed,
          call, ret>>

\* The empty dict.
EmptyDict == [k \in {} |-> 0]

\* d.setdefault(k, v) read as a value, and d[k] = v.
setdefault(d, k, v) == IF k \in DOMAIN d THEN d[k] ELSE v

Store(d, k, v) == [x \in DOMAIN d \cup {k} |-> IF x = k THEN v ELSE d[x]]

\* An entry of the log file: the line number it reports (0 for the entries
\* that are about no record) and what it says.
LogEntry(lineNumber, what) == [lineNumber |-> lineNumber, msg |-> what]

\* Lines 33-70: what main writes to the log file before the loop.
LogHeader(verbose) ==
    <<LogEntry(0, "Opened"), LogEntry(0, "Started processing")>>
        \o (IF ~verbose THEN <<LogEntry(0, "Use -v")>> ELSE <<>>)

\* Lines 175-195 and 269-343: a skipped row is reported when logVerbose is
\* set; a valid record and a ValueError on its way out write nothing.
LogSkipped(log, verbose, lineNumber, aRecord) ==
    IF verbose /\ aRecord.tag \in {"None", "0"}
    THEN Append(log, LogEntry(lineNumber, aRecord.msg))
    ELSE log

\* Lines 102-108: the summary at the end of the run.
LogSummary(log, total, valid, invalid) ==
    Append(log, [lineNumber |-> 0, msg |-> "Gone through",
                 nRec |-> total, nValid |-> valid, nInvalid |-> invalid])

Init ==
    /\ percentile \in Percentiles
    /\ strictRepeat \in BOOLEAN
    /\ logVerbose \in BOOLEAN
    /\ logFile = LogHeader(logVerbose)
    /\ donors = EmptyDict
    /\ repeatDonations = EmptyDict
    /\ repeatSum = EmptyDict
    /\ nRec = 0
    /\ nValid = 0
    /\ nInvalid = 0
    /\ outFile = <<>>
    /\ pc = "loop"
    /\ consumed = <<>>
    /\ call = <<>>
    /\ ret = <<>>

(***************************************************************************)
(* One iteration of the for loop of main, on the row rec.                  *)
(***************************************************************************)
\* The donor's years are overwritten by the year of the record.
RecordDonorOverwrite(aRecord) ==
    /\ donors' = Store(donors, aRecord.donorID, {aRecord.year})
    /\ nValid' = nValid + 1

\* Lines 91-95: the donor's year is recorded after the classification.
RecordDonor(aRecord) ==
    /\ donors' = Store(donors, aRecord.donorID,
                       setdefault(donors, aRecord.donorID, {})
                           \cup {aRecord.year})
    /\ nValid' = nValid + 1

\* The line is written at the head of the output.
mainRepeatPrepend(aRecord) ==
    LET amt  == aRecord.amount
        gid  == aRecord.groupID
        tot  == setdefault(repeatSum, gid, 0) + amt
        st   == emitStats(aRecord,
                          Append(setdefault(repeatDonations, gid, <<>>), amt),
                          tot, percentile)
    IN  /\ repeatDonations' = Store(repeatDonations, gid, st.donations)
        /\ repeatSum' = Store(repeatSum, gid, tot)
        /\ IF st.raises
           THEN /\ pc' = "raised"
                /\ UNCHANGED <<outFile, donors, nValid>>
           ELSE /\ outFile' = <<st.emit>> \o outFile
                /\ RecordDonor(aRecord)
                /\ pc' = pc

\* The running sum starts afresh at every repeat donation.
mainRepeatSumReset(aRecord) ==
    LET amt  == aRecord.amount
        gid  == aRecord.groupID
        tot  == amt
        st   == emitStats(aRecord,
                          Append(setdefault(repeatDonations, gid, <<>>), amt),
                          tot, percentile)
    IN  /\ repeatDonations' = Store(repeatDonations, gid, st.donations)
        /\ repeatSum' = Store(repeatSum, gid, tot)
        /\ IF st.raises
           THEN /\ pc' = "raised"
                /\ UNCHANGED <<outFile, donors, nValid>>
           ELSE /\ outFile' = Append(outFile, st.emit)
                /\ RecordDonor(aRecord)
                /\ pc' = pc

\* The lines already written for the group are brought up to date with the
\* new line.
mainRepeatRewrite(aRecord) ==
    LET amt  == aRecord.amount
        gid  == aRecord.groupID
        tot  == setdefault(repeatSum, gid, 0) + amt
        st   == emitStats(aRecord,
                          Append(setdefault(repeatDonations, gid, <<>>), amt),
                          tot, percentile)
        same(line) == /\ line.rcpt = aRecord.recipient
                      /\ line.zipCode = aRecord.zipCode
                      /\ line.year = aRecord.year
    IN  /\ repeatDonations' = Store(repeatDonations, gid, st.donations)
        /\ repeatSum' = Store(repeatSum, gid, tot)
        /\ IF st.raises
           THEN /\ pc' = "raised"
                /\ UNCHANGED <<outFile, donors, nValid>>
           ELSE /\ outFile' =
                       Append([n \in 1..Len(outFile) |->
                                  IF same(outFile[n]) THEN st.emit
                                  ELSE outFile[n]],
                              st.emit)
                /\ RecordDonor(aRecord)
                /\ pc' = pc

\* Lines 78-90: a repeat donation.
mainRepeat(aRecord) ==
    LET amt  == aRecord.amount
        gid  == aRecord.groupID
        tot  == setdefault(repeatSum, gid, 0) + amt
        st   == emitStats(aRecord,
                          Append(setdefault(repeatDonations, gid, <<>>), amt),
                          tot, percentile)
    IN  /\ repeatDonations' = Store(repeatDonations, gid, st.donations)
        /\ repeatSum' = Store(repeatSum, gid, tot)
        /\ IF st.raises
           THEN /\ pc' = "raised"
                /\ UNCHANGED <<outFile, donors, nValid>>
           ELSE /\ outFile' = Append(outFile, st.emit)
                /\ RecordDonor(aRecord)
                /\ pc' = pc

mainValid(aRecord) ==
    /\ aRecord.tag = "ValidRecord"
    /\ IF isRepeat(aRecord, donors, strictRepeat)
       THEN mainRepeat(aRecord)
       ELSE /\ RecordDonor(aRecord)
            /\ UNCHANGED <<repeatDonations, repeatSum, outFile, pc>>
    /\ UNCHANGED nInvalid

\* A comment line is tallied like an invalid record.
mainCommentCounted(aRecord) ==
    /\ aRecord.tag = "0"
    /\ nInvalid' = nInvalid + 1
    /\ UNCHANGED <<donors, repeatDonations, repeatSum, nValid, outFile, pc>>

\* Lines 96-97: aRecord == 0.
mainComment(aRecord) ==
    /\ aRecord.tag = "0"
    /\ UNCHANGED <<donors, repeatDonations, repeatSum, nValid, nInvalid,
                   outFile, pc>>

\* The invalid record is tallied inside the test of logVerbose.
mainInvalidWhenVerbose(aRecord) ==
    /\ aRecord.tag = "None"
    /\ nInvalid' = IF logVerbose THEN nInvalid + 1 ELSE nInvalid
    /\ UNCHANGED <<donors, repeatDonations, repeatSum, nValid, outFile, pc>>

\* The invalid record is passed over like a comment line.
mainInvalidUncounted(aRecord) ==
    /\ aRecord.tag = "None"
    /\ UNCHANGED <<donors, repeatDonations, repeatSum, nValid, nInvalid,
                   outFile, pc>>

\* Lines 98-100: aRecord is None.
mainInvalid(aRecord) ==
    /\ aRecord.tag = "None"
    /\ nInvalid' = nInvalid + 1
    /\ UNCHANGED <<donors, repeatDonations, repeatSum, nValid, outFile, pc>>

\* The ValueError of int() in isValid leaves moldRecord and main.
mainRaise(aRecord) ==
    /\ aRecord.tag = "ValueError"
    /\ pc' = "raised"
    /\ UNCHANGED <<donors, repeatDonations, repeatSum, nValid, nInvalid,
                   outFile>>

\* Lines 73-100: the body of the for loop on the row rec, molded to aRecord.
mainLoopBody(rec, aRecord) ==
    /\ pc = "loop"
    /\ nRec' = nRec + 1
    /\ consumed' = Append(consumed, rec)
    /\ logFile' = LogSkipped(logFile, logVerbose, nRec + 1, aRecord)
    /\ \/ mainValid(aRecord)
       \/ mainComment(aRecord)
       \/ mainInvalid(aRecord)
       \/ mainRaise(aRecord)
    /\ UNCHANGED <<percentile, strictRepeat, logVerbose, call, ret>>

main(rec) ==
    /\ nRec < MaxRecs
    /\ mainLoopBody(rec, aRecords[rec])

\* The record file is exhausted: the for loop ends and main returns.
mainEnd ==
    /\ pc = "loop"
    /\ pc' = "done"
    /\ logFile' = LogSummary(logFile, nRec, nValid, nInvalid)
    /\ UNCHANGED <<percentile, strictRepeat, donors, repeatDonations,
                   repeatSum, nRec, nValid, nInvalid, outFile, logVerbose,
                   consumed, call, ret>>

Next ==
    \/ \E rec \in Rows : main(rec)
    \/ mainEnd

Spec == Init /\ [][Next]_vars

(***************************************************************************)
(* findPercentileValue applied on its own to a sorted list and a           *)
(* percentile.                                                             *)
(***************************************************************************)
\* Sorted lists of every length up to MaxListLen, without and with ties.
SortedLists ==
    {[i \in 1..n |-> i] : n \in 1..MaxListLen}
        \cup {[i \in 1..n |-> 10 * ((i + 1) \div 2)] : n \in 1..MaxListLen}

PercentileArgs == (0 - 1)..102

InitPercentile ==
    /\ call \in [sortedList : SortedLists, percentile : PercentileArgs]
    /\ ret = <<>>
    /\ pc = "call"
    /\ percentile = 0
    /\ strictRepeat = FALSE
    /\ donors = EmptyDict
    /\ repeatDonations = EmptyDict
    /\ repeatSum = EmptyDict
    /\ nRec = 0
    /\ nValid = 0
    /\ nInvalid = 0
    /\ outFile = <<>>
    /\ logVerbose = FALSE
    /\ logFile = <<>>
    /\ consumed = <<>>

callFindPercentileValue ==
    /\ pc = "call"
    /\ ret' = findPercentileValue(call.sortedList, call.percentile)
    /\ pc' = "return"
    /\ UNCHANGED <<percentile, strictRepeat, donors, repeatDonations,
                   repeatSum, nRec, nValid, nInvalid, outFile, logVerbose,
                   logFile, consumed, call>>

NextPercentile == callFindPercentileValue

SpecPercentile == InitPercentile /\ [][NextPercentile]_vars

(***************************************************************************)
(* What the rows consumed so far prescribe.                                *)
(***************************************************************************)
\* The molded form of the i-th row read.
Mold(i) == aRecords[consumed[i]]

IsValidRec(i) == Mold(i).tag = "ValidRecord"

\* The rows whose loop iteration ran to its end: all those read, but for the
\* row on which an exception left main.
Completed == IF pc = "raised" THEN nRec - 1 ELSE nRec

\* The earlier valid records of the donor of record i, and their years.
Earlier(i) ==
    {j \in 1..(i - 1) : IsValidRec(j) /\ Mold(j).donorID = Mold(i).donorID}

EarlierYears(i) == {Mold(j).year : j \in Earlier(i)}

\* Record i is a repeat donation by the rules of the two modes.
ShouldRepeat(i) ==
    /\ IsValidRec(i)
    /\ IF strictRepeat THEN EarlierYears(i) \ {Mold(i).year} # {}
       ELSE Earlier(i) # {}

\* The repeat donations among the first k rows, in input order.
RepeatsUpTo(k) ==
    SelectSeq([i \in 1..k |-> i], LAMBDA i : ShouldRepeat(i))

RECURSIVE SumSeq(_)
SumSeq(q) == IF Len(q) = 0 THEN 0 ELSE Head(q) + SumSeq(Tail(q))

\* The amounts of the repeat donations to group g among the first k rows.
GroupAmounts(g, k) ==
    LET idx == SelectSeq(RepeatsUpTo(k), LAMBDA i : Mold(i).groupID = g)
    IN  [n \in 1..Len(idx) |-> Mold(idx[n]).amount]

\* A step of the loop reads one row; these describe that row in the step.
Reads == nRec' = nRec + 1

ReadRow == consumed'[nRec']

ReadRecord == aRecords[ReadRow]

IsBlankRow(row) == Len(row) = 0

IsCommentRow(row) ==
    Len(row) > 0 /\ Len(row[1]) > 0 /\ row[1][1] = "#"

\* The record read has an earlier valid record of the same donor.
DonorSeenBefore ==
    \E j \in 1..nRec : IsValidRec(j) /\ Mold(j).donorID = ReadRecord.donorID

\* The years of the earlier valid records of the donor of the record read.
YearsSeenBefore ==
    {Mold(j).year :
        j \in {k \in 1..nRec :
                  IsValidRec(k) /\ Mold(k).donorID = ReadRecord.donorID}}

\* The step treats the record read as a repeat donation: it appends to a
\* group list.
TreatedAsRepeat == repeatDonations' # repeatDonations

PercentileOK == percentile > 0 /\ percentile <= 100

(***************************************************************************)
(* C1.  The first valid record of a donor is not a repeat donation, in     *)
(* either mode: the step that reads it writes no line and leaves every     *)
(* group list and every running sum as they were.                          *)
(***************************************************************************)
C1_FirstDonationNotRepeat ==
    [][(Reads /\ ReadRecord.tag = "ValidRecord" /\ ~DonorSeenBefore)
          => /\ outFile' = outFile
             /\ repeatDonations' = repeatDonations
             /\ repeatSum' = repeatSum]_vars

\* Donor B gives for the first time after donor A's repeat donation was
\* written: nothing is added for B.
C1_Witness ==
    /\ consumed = <<RowA2015a, RowA2015b, RowB2015>>
    /\ ~strictRepeat
    /\ Len(outFile) = 1
    /\ nValid = 3
    /\ DOMAIN repeatSum = {Mold(2).groupID}
    /\ repeatSum[Mold(2).groupID] = 20

(***************************************************************************)
(* C2.  In default mode a valid record is treated as a repeat donation     *)
(* exactly when an earlier valid record has the same donorID, whatever the *)
(* recipient and year of that record; with a percentile in range the       *)
(* repeat donation is also the one that writes a line.                     *)
(***************************************************************************)
C2_DefaultRepeatIff ==
    [][(Reads /\ ~strictRepeat /\ ReadRecord.tag = "ValidRecord")
          => /\ TreatedAsRepeat <=> DonorSeenBefore
             /\ PercentileOK => (outFile' # outFile <=> DonorSeenBefore)]_vars

\* A second donation in the year of the first, and one to another recipient,
\* are both repeat donations.
C2_Witness ==
    /\ consumed = <<RowA2015a, RowA2015b, RowA2015c>>
    /\ ~strictRepeat
    /\ Len(outFile) = 2
    /\ outFile[1].rcpt = C00001
    /\ outFile[2].rcpt = C00002

(***************************************************************************)
(* C3.  In strict mode a valid record is treated as a repeat donation      *)
(* exactly when the years of the earlier valid records of its donor        *)
(* include a year other than its own.                                      *)
(***************************************************************************)
C3_StrictRepeatIff ==
    [][(Reads /\ strictRepeat /\ ReadRecord.tag = "ValidRecord")
          => LET other == YearsSeenBefore \ {ReadRecord.year} # {}
             IN  /\ TreatedAsRepeat <=> other
                 /\ PercentileOK => (outFile' # outFile <=> other)]_vars

\* The second donation of 2015 is not a repeat donation, that of 2016 is, and
\* so is a further one of 2015 once 2016 is on record.
C3_Witness ==
    /\ consumed = <<RowA2015a, RowA2015b, RowA2016, RowA2015a>>
    /\ strictRepeat
    /\ Len(outFile) = 2
    /\ outFile[1].year = <<"2", "0", "1", "6">>
    /\ outFile[2].year = <<"2", "0", "1", "5">>

(***************************************************************************)
(* C4.  After every completed loop iteration donors maps each donorID to   *)
(* exactly the years of the valid records read so far that have that       *)
(* donorID, repeat or not; the year of a record is added only after the    *)
(* record was classified, and no year or donor is ever removed.            *)
(***************************************************************************)
C4_DonorsAreTheYearsRead ==
    LET valid == {i \in 1..Completed : IsValidRec(i)}
    IN  /\ DOMAIN donors = {Mold(i).donorID : i \in valid}
        /\ \A d \in DOMAIN donors :
               donors[d] =
                   {Mold(i).year : i \in {v \in valid : Mold(v).donorID = d}}

C4_GrowsAfterClassification ==
    /\ \A d \in DOMAIN donors :
           d \in DOMAIN donors' /\ donors[d] \subseteq donors'[d]
    /\ (Reads /\ ReadRecord.tag = "ValidRecord")
          => (TreatedAsRepeat <=>
                 IF strictRepeat THEN YearsSeenBefore \ {ReadRecord.year} # {}
                 ELSE DonorSeenBefore)

C4_DonorHistory ==
    []C4_DonorsAreTheYearsRead /\ [][C4_GrowsAfterClassification]_vars

\* Donor A has two years on record, from a first and two repeat donations,
\* beside donor B.
C4_Witness ==
    /\ consumed = <<RowA2015a, RowB2015, RowA2016, RowA2015b>>
    /\ ~strictRepeat
    /\ Len(outFile) = 2
    /\ Cardinality(DOMAIN donors) = 2
    /\ donors[Mold(1).donorID] = {Mold(1).year, Mold(3).year}
    /\ donors[Mold(2).donorID] = {Mold(2).year}

(***************************************************************************)
(* C5.  The lines written are the repeat donations in input order, one     *)
(* line each: the n-th line carries the recipient, the zip code and the    *)
(* year of the n-th repeat donation, and a line once written stays where   *)
(* it is, every later line coming after it.  (A row on which an exception  *)
(* leaves main writes nothing.)                                            *)
(***************************************************************************)
C5_LinesAreTheRepeats ==
    LET reps == RepeatsUpTo(Completed)
    IN  /\ Len(outFile) = Len(reps)
        /\ \A n \in 1..Len(reps) :
               n <= Len(outFile) =>
                   LET row == consumed[reps[n]]
                   IN  /\ outFile[n].rcpt = row[colID("CMTE_ID")]
                       /\ outFile[n].zipCode =
                              Slice(row[colID("ZIP_CODE")], 0, 5)
                       /\ outFile[n].year =
                              Slice(row[colID("TRANSACTION_DT")], 4, 8)

C5_AppendOnly ==
    \/ outFile' = outFile
    \/ /\ Len(outFile') = Len(outFile) + 1
       /\ SubSeq(outFile', 1, Len(outFile)) = outFile
       /\ Reads

C5_OutputOrder == []C5_LinesAreTheRepeats /\ [][C5_AppendOnly]_vars

\* Two repeat donations of different donors to different groups: the line of
\* the earlier row comes first.
C5_Witness ==
    /\ consumed = <<RowA2015a, RowB2015, RowA2016, RowB2015>>
    /\ ~strictRepeat
    /\ Len(outFile) = 2
    /\ outFile[1].year = <<"2", "0", "1", "6">>
    /\ outFile[2].year = <<"2", "0", "1", "5">>

(***************************************************************************)
(* C6.  For every group, repeatSum is the sum of the amounts of the repeat *)
(* donations to the group so far and the group list has one entry for each *)
(* of them; the line written for the k-th repeat donation to a group       *)
(* carries the count k and the sum of those k amounts.                     *)
(***************************************************************************)
C6_RunningSumAndCount ==
    LET all   == RepeatsUpTo(nRec)
        reps  == RepeatsUpTo(Completed)
        group == {Mold(all[n]).groupID : n \in 1..Len(all)}
    IN  /\ DOMAIN repeatSum = group
        /\ DOMAIN repeatDonations = group
        /\ \A g \in group :
               /\ g \in DOMAIN repeatSum
                     => repeatSum[g] = SumSeq(GroupAmounts(g, nRec))
               /\ g \in DOMAIN repeatDonations
                     => Len(repeatDonations[g]) = Len(GroupAmounts(g, nRec))
        /\ \A n \in 1..Len(outFile) :
               n <= Len(reps) =>
                   LET amts == GroupAmounts(Mold(reps[n]).groupID, reps[n])
                   IN  /\ outFile[n].cnt = Len(amts)
                       /\ outFile[n].tot = SumSeq(amts)

\* Two repeat donations to one group, by two donors: the second line counts
\* 2 and sums 20 + 7.
C6_Witness ==
    /\ consumed = <<RowA2015a, RowB2015, RowA2015b, RowB2015>>
    /\ percentile = 50
    /\ Len(outFile) = 2
    /\ outFile[1].cnt = 1
    /\ outFile[1].tot = 20
    /\ outFile[2].cnt = 2
    /\ outFile[2].tot = 27
    /\ repeatSum[Mold(1).groupID] = 27

(***************************************************************************)
(* C7.  findPercentileValue returns, for a non-empty sorted list of n      *)
(* amounts and a percentile p in 1..100, the element of 0-based index      *)
(* ceil(p*n/100) - 1, the last element for p = 100, and raises an error    *)
(* for p <= 0 and for p > 100.                                             *)
(***************************************************************************)
\* ceil(p*n/100) in exact integer arithmetic.
NearestRank(p, n) == (p * n + 99) \div 100

C7_NearestRankValue ==
    pc = "return" =>
        LET p == call.percentile
            n == Len(call.sortedList)
        IN  IF p >= 1 /\ p <= 100
            THEN /\ ~ret.raises
                 /\ ret.value = call.sortedList[NearestRank(p, n)]
                 /\ p = 100 => ret.value = call.sortedList[n]
            ELSE ret.raises

(***************************************************************************)
(* C8.  Donor A of zip 11111 gives to C00001 in 2015, in 2015 and in 2016, *)
(* default mode, percentile in range.  The first donation writes nothing   *)
(* and the second writes C00001|11111|2015|amt2|amt2|1.                    *)
(*   As claimed: the third writes a line with count 2 and the sum of two   *)
(* amounts.                                                                *)
(*   As amended: the third opens the group of 2016 and writes              *)
(* C00001|11111|2016|amt3|amt3|1.                                          *)
(***************************************************************************)
Rows2015 == {RowA2015a, RowA2015b}

Line(rcpt, zip, yr, pctl, tot, cnt) ==
    [rcpt |-> rcpt, zipCode |-> zip, year |-> yr, pctl |-> pctl, tot |-> tot,
     cnt |-> cnt]

Amt(row) == aRecords[row].amount

Yr(row) == aRecords[row].year

C8_FirstTwoDonations ==
    \A r1, r2 \in Rows2015 :
        /\ consumed = <<r1>> => outFile = <<>>
        /\ (Len(consumed) >= 2 /\ SubSeq(consumed, 1, 2) = <<r1, r2>>
              /\ Len(outFile) >= 1)
              => outFile[1] =
                     Line(C00001, Zip11111, Yr(r2), Amt(r2), Amt(r2), 1)
        /\ consumed = <<r1, r2>> => Len(outFile) = 1

C8_ScenarioAsClaimed ==
    (~strictRepeat /\ PercentileOK)
        => /\ C8_FirstTwoDonations
           /\ \A r1, r2 \in Rows2015 :
                  consumed = <<r1, r2, RowA2016>>
                      => /\ Len(outFile) = 2
                         /\ outFile[2].cnt = 2
                         /\ outFile[2].tot = Amt(r2) + Amt(RowA2016)

C8_Scenario ==
    (~strictRepeat /\ PercentileOK)
        => /\ C8_FirstTwoDonations
           /\ \A r1, r2 \in Rows2015 :
                  consumed = <<r1, r2, RowA2016>>
                      => /\ Len(outFile) = 2
                         /\ outFile[2] =
                                Line(C00001, Zip11111, Yr(RowA2016),
                                     Amt(RowA2016), Amt(RowA2016), 1)

C8_Witness ==
    /\ consumed = <<RowA2015a, RowA2015b, RowA2016>>
    /\ ~strictRepeat
    /\ percentile = 50
    /\ outFile = << Line(C00001, Zip11111, <<"2", "0", "1", "5">>, 20, 20, 1),
                    Line(C00001, Zip11111, <<"2", "0", "1", "6">>, 30, 30, 1) >>

(***************************************************************************)
(* C9.  Blank lines and comment lines (first field starting with '#').     *)
(*   As claimed: reading either one adds one to nRec only; nInvalid and    *)
(* nValid, donors, repeatDonations and repeatSum stay as they are, nothing *)
(* is written.                                                             *)
(*   As amended: that is so for a comment line; a blank line is tallied as *)
(* an invalid record, it adds one to nRec and one to nInvalid and changes  *)
(* nothing else.                                                           *)
(***************************************************************************)
SkippedUntouched ==
    /\ nValid' = nValid
    /\ donors' = donors
    /\ repeatDonations' = repeatDonations
    /\ repeatSum' = repeatSum
    /\ outFile' = outFile
    /\ pc' = pc

IsInvalidRow(row) ==
    /\ ~IsBlankRow(row)
    /\ ~IsCommentRow(row)
    /\ aRecords[row].tag # "ValidRecord"

C10_InvalidRecordIsLocal ==
    [][(Reads /\ IsInvalidRow(ReadRow))
          => /\ nInvalid' = nInvalid + 1
             /\ nValid' = nValid
             /\ donors' = donors
             /\ repeatDonations' = repeatDonations
             /\ repeatSum' = repeatSum
             /\ outFile' = outFile
             /\ pc' = "loop"]_vars

(***************************************************************************)
(* moldRecord applied on its own to one row of the record file.  The row   *)
(* has the 21 columns; each of the six selected fields is drawn from       *)
(* values that pass and values that fail its rule in isValid.              *)
(***************************************************************************)
OtherIDs == {<<>>, <<" ">>, <<"X">>}

Recipients == {C00001, <<>>, <<" ">>, <<"C", "-", "1">>}

Names == {<<"A">>, <<>>, <<" ", " ", " ">>}

ZipCodes ==
    {Zip11111,
     <<"1", "2">>,
     <<"1", "1", "1", "1", "a">>,
     <<"0", "2", "8", "9", "5", "-", "X", "X", "X", "X", "X">>}

Dates ==
    {Jan2015,
     <<"1", "3", "0", "1", "2", "0", "2", "0">>,
     <<"0", "2", "2", "9", "2", "0", "1", "5">>,
     <<"0", "2", "2", "9", "2", "0", "1", "6">>,
     <<"1", "0", "1", "2", "0", "1", "5">>,
     <<"1", "1", "2", "0", "1", "5">>,
     <<"0", "1", "0", "1", "2", "0", "1", "5", "5">>,
     <<"0", "1", "0", "1", "2", "0", "1">>,
     <<"0", "1", "X", "1", "2", "0", "1", "5">>,
     <<"1", " ", "1", "2", "0", "1", "5">>,
     <<>>,
     <<" ">>}

Amounts ==
    {<<"1", "0">>,
     <<" ", "7", " ">>,
     <<"-", "5">>,
     <<"0">>,
     <<"a", "b", "c">>,
     <<"5", ".", "5">>,
     <<"2", "5", "0", ".", "0", "0">>,
     <<"1", "e", "2">>,
     <<"0", ".", "0", "e", "0">>,
     <<".", "0">>,
     <<"-", "5", ".", "5">>,
     <<"n", "a", "n">>,
     <<"i", "n", "f">>,
     <<>>,
     <<" ">>}

\* A row of 21 fields, or one of the rows moldRecord turns away before it
\* looks at a field.
InitMold ==
    /\ \/ \E cmte \in Recipients, name \in Names, zip \in ZipCodes,
             dt \in Dates, amt \in Amounts, other \in OtherIDs :
              call = MkRow(cmte, name, zip, dt, amt, other)
       \/ call \in {RowBlank, RowComment, RowShort}
    /\ ret = <<>>
    /\ pc = "call"
    /\ percentile = 0
    /\ strictRepeat = FALSE
    /\ donors = EmptyDict
    /\ repeatDonations = EmptyDict
    /\ repeatSum = EmptyDict
    /\ nRec = 0
    /\ nValid = 0
    /\ nInvalid = 0
    /\ outFile = <<>>
    /\ logVerbose = FALSE
    /\ logFile = <<>>
    /\ consumed = <<>>

callMoldRecord ==
    /\ pc = "call"
    /\ ret' = moldRecord(call)
    /\ pc' = "return"
    /\ UNCHANGED <<percentile, strictRepeat, donors, repeatDonations,
                   repeatSum, nRec, nValid, nInvalid, outFile, logVerbose,
                   logFile, consumed, call>>

NextMold == callMoldRecord

SpecMold == InitMold /\ [][NextMold]_vars

(***************************************************************************)
(* What a row is by the rules of the specification, read off its fields.   *)
(***************************************************************************)
Field(row, aColumn) == row[colID(aColumn)]

HasAllFields(row) == Len(row) = nAllColumns /\ ~IsCommentRow(row)

\* Eight decimal digits MMDDYYYY that name a day of the calendar.
IsCalendarDate8(s) ==
    /\ Len(s) = 8
    /\ AllIn(s, Digits)
    /\ LET m == DecimalValue(SubSeq(s, 1, 2))
           d == DecimalValue(SubSeq(s, 3, 4))
           y == DecimalValue(SubSeq(s, 5, 8))
       IN  m \in 1..12 /\ y >= 1 /\ d >= 1 /\ d <= DaysInMonth(y, m)

\* The fields other than the amount pass their rules.
OtherFieldsPass(row) ==
    /\ HasAllFields(row)
    /\ AllIn(Field(row, "OTHER_ID"), Whitespace)
    /\ isalnum(Field(row, "CMTE_ID"))
    /\ ~AllIn(Field(row, "NAME"), Whitespace)
    /\ Len(Field(row, "ZIP_CODE")) >= 5
    /\ AllIn(SubSeq(Field(row, "ZIP_CODE"), 1, 5), Digits)
    /\ IsCalendarDate8(Field(row, "TRANSACTION_DT"))

RECURSIVE Pow10(_)
Pow10(k) == IF k = 0 THEN 1 ELSE 10 * Pow10(k - 1)

\* The field is a decimal literal of a finite real number.
IsRealLiteral(s) == IsFloatNumber(Unsigned(Strip(s)))

\* The integer truncation (towards zero) of the real number the literal s
\* denotes, computed from its digits.
RealTrunc(s) ==
    LET t    == Unsigned(Strip(s))
        es   == {i \in 1..Len(t) : t[i] \in {"e", "E"}}
        e    == IF es = {} THEN Len(t) + 1 ELSE CHOOSE i \in es : TRUE
        mant == SubSeq(t, 1, e - 1)
        ex   == SubSeq(t, e + 1, Len(t))
        expo == IF Len(ex) = 0 THEN 0
                ELSE IF ex[1] = "-" THEN 0 - DecimalValue(Unsigned(ex))
                ELSE DecimalValue(Unsigned(ex))
        ds   == {i \in 1..Len(mant) : mant[i] = "."}
        d    == IF ds = {} THEN Len(mant) + 1 ELSE CHOOSE i \in ds : TRUE
        ip   == SubSeq(mant, 1, d - 1)
        fp   == SubSeq(mant, d + 1, Len(mant))
        k    == expo - Len(fp)
        mag  == IF k >= 0 THEN DecimalValue(ip \o fp) * Pow10(k)
                ELSE DecimalValue(ip \o fp) \div Pow10(0 - k)
    IN  IF Strip(s)[1] = "-" THEN 0 - mag ELSE mag

(***************************************************************************)
(* C11.  A row whose other fields pass and whose amount field is the       *)
(* literal of a real number is molded by the integer truncation of that    *)
(* number: when the truncation is positive ("5.5", "250.00") the row is    *)
(* accepted as a valid record with that amount, and when it is zero        *)
(* ("0.0e0", ".0") the row is an invalid record (moldRecord returns None)  *)
(* and no error leaves moldRecord.                                         *)
(***************************************************************************)
C11_AmountTruncation ==
    (pc = "return" /\ OtherFieldsPass(call)
        /\ IsRealLiteral(Field(call, "TRANSACTION_AMT")))
        => LET t == RealTrunc(Field(call, "TRANSACTION_AMT"))
           IN  /\ t > 0 => ret.tag = "ValidRecord" /\ ret.amount = t
               /\ t = 0 => ret.tag = "None"

(***************************************************************************)
(* C12.  With a percentile outside (0, 100] the run is aborted by the      *)
(* first repeat donation and by nothing before it: once a repeat donation  *)
(* has been read it is the last row read and main has been left with an    *)
(* error, no line is ever written, and as long as no repeat donation has   *)
(* been read the percentile is not looked at, the only error that can end  *)
(* the run being the one of a malformed amount.                            *)
(***************************************************************************)
C12_AbortAtFirstRepeat ==
    ~PercentileOK =>
        LET reps == RepeatsUpTo(nRec)
        IN  /\ outFile = <<>>
            /\ reps # <<>> => pc = "raised" /\ reps = <<nRec>>
            /\ reps = <<>> => (pc = "raised" => Mold(nRec).tag = "ValueError")

\* Percentile 101: two first donations are recorded, the repeat donation of
\* donor A aborts the run and nothing is written.
C12_Witness ==
    /\ consumed = <<RowA2015a, RowB2015, RowA2015b>>
    /\ percentile = 101
    /\ pc = "raised"
    /\ nValid = 2
    /\ outFile = <<>>

(***************************************************************************)
(* C13.  Of a row of 21 fields moldRecord returns None when OTHER_ID holds *)
(* anything but whitespace, the recipient is empty or not alphanumeric,    *)
(* the name is empty or whitespace, the zip code has fewer than 5          *)
(* characters or its first 5 are not all decimal digits, the amount is not *)
(* the literal of a real number or is not positive, or the date is not a   *)
(* day of the calendar written MMDDYYYY; of every other row it returns a   *)
(* valid record whose zipCode is the first 5 characters of the zip field.  *)
(***************************************************************************)
\* The literal s of a real number denotes a number <= 0: it has a minus sign
\* or no digit of its mantissa differs from 0.
IsNonPositive(s) ==
    LET t  == Unsigned(Strip(s))
        es == {i \in 1..Len(t) : t[i] \in {"e", "E"}}
        e  == IF es = {} THEN Len(t) + 1 ELSE CHOOSE i \in es : TRUE
    IN  \/ Strip(s)[1] = "-"
        \/ \A i \in 1..(e - 1) : t[i] \in {"0", "."}

FailsARule(row) ==
    \/ ~AllIn(Field(row, "OTHER_ID"), Whitespace)
    \/ ~isalnum(Field(row, "CMTE_ID"))
    \/ AllIn(Field(row, "NAME"), Whitespace)
    \/ Len(Field(row, "ZIP_CODE")) < 5
    \/ ~AllIn(SubSeq(Field(row, "ZIP_CODE"), 1, 5), Digits)
    \/ ~IsRealLiteral(Field(row, "TRANSACTION_AMT"))
    \/ IsNonPositive(Field(row, "TRANSACTION_AMT"))
    \/ ~IsCalendarDate8(Field(row, "TRANSACTION_DT"))

C13_ValidationRules ==
    (pc = "return" /\ HasAllFields(call))
        => IF FailsARule(call)
           THEN ret.tag = "None"
           ELSE /\ ret.tag = "ValidRecord"
                /\ ret.zipCode = SubSeq(Field(call, "ZIP_CODE"), 1, 5)

\* The same with the amount an integer literal and the date of 8 characters,
\* which leaves the rules of the other fields and of such amounts and dates.
C13_RulesOnIntegerAmounts ==
    (pc = "return" /\ HasAllFields(call)
        /\ (IntParses(Field(call, "TRANSACTION_AMT"))
              \/ ~IsRealLiteral(Field(call, "TRANSACTION_AMT")))
        /\ Field(call, "TRANSACTION_AMT") # <<"i", "n", "f">>
        /\ Len(Field(call, "TRANSACTION_DT")) \in {0, 8})
        => IF FailsARule(call)
           THEN ret.tag = "None"
           ELSE /\ ret.tag = "ValidRecord"
                /\ ret.zipCode = SubSeq(Field(call, "ZIP_CODE"), 1, 5)

(***************************************************************************)
(* main on a long record file of one donor and one group: donations of 10  *)
(* followed by donations of 20, up to MaxListLen repeat donations, for     *)
(* every percentile in range.                                              *)
(***************************************************************************)
RunRows == {RowA2015a, RowA2015b}

RunPercentiles == 1..100

InitRun ==
    /\ percentile \in RunPercentiles
    /\ strictRepeat = FALSE
    /\ logVerbose = FALSE
    /\ logFile = LogHeader(logVerbose)
    /\ donors = EmptyDict
    /\ repeatDonations = EmptyDict
    /\ repeatSum = EmptyDict
    /\ nRec = 0
    /\ nValid = 0
    /\ nInvalid = 0
    /\ outFile = <<>>
    /\ pc = "loop"
    /\ consumed = <<>>
    /\ call = <<>>
    /\ ret = <<>>

mainRun(rec) ==
    /\ nRec < MaxListLen + 1
    /\ rec = RowA2015a => \A i \in 1..Len(consumed) : consumed[i] = RowA2015a
    /\ mainLoopBody(rec, aRecords[rec])

NextRun ==
    \/ \E rec \in RunRows : mainRun(rec)
    \/ mainEnd

SpecRun == InitRun /\ [][NextRun]_vars

(***************************************************************************)
(* C14.  After a repeat donation has been processed the list of its group  *)
(* is in non-decreasing order and holds, as a multiset, the amounts of the *)
(* repeat donations to the group read so far and nothing else; the         *)
(* percentile amount of the line just written is the nearest-rank          *)
(* percentile of that list, its element of rank ceil(p*n/100).             *)
(***************************************************************************)
IsNonDecreasing(q) == \A i \in 1..(Len(q) - 1) : q[i] <= q[i + 1]

Occurrences(q, v) == Cardinality({i \in 1..Len(q) : q[i] = v})

SameMultiset(q, r) ==
    /\ Len(q) = Len(r)
    /\ \A i \in 1..Len(q) : Occurrences(q, q[i]) = Occurrences(r, q[i])

C14_ListIsTheRepeatsSorted ==
    \A g \in DOMAIN repeatDonations :
        /\ IsNonDecreasing(repeatDonations[g])
        /\ SameMultiset(repeatDonations[g], GroupAmounts(g, nRec))

C14_SortedListAndPercentile ==
    /\ C14_ListIsTheRepeatsSorted
    /\ (Len(outFile) > 0 /\ pc # "raised" /\ IsValidRec(nRec)
          /\ ShouldRepeat(nRec))
          => LET list == repeatDonations[Mold(nRec).groupID]
             IN  outFile[Len(outFile)].pctl =
                     list[NearestRank(percentile, Len(list))]

(***************************************************************************)
(* main as a function of its inputs: the state of a run that has read the  *)
(* rows of records, for a percentile, a strictRepeat and a logVerbose.  It *)
(* is the run another invocation of the program makes on the same rows,    *)
(* against which the run of the state machine is compared.                 *)
(***************************************************************************)
\* Lines 54-70: the state before the loop.
mainStart(verbose) ==
    [donors |-> EmptyDict, repeatDonations |-> EmptyDict,
     repeatSum |-> EmptyDict, nRec |-> 0, nValid |-> 0, nInvalid |-> 0,
     outFile |-> <<>>, logFile |-> LogHeader(verbose), pc |-> "loop"]

\* Lines 73-100: one iteration of the loop; a run that an error has ended
\* reads no further row.
mainIterate(s, rec, pct, strict, verbose) ==
    LET aRecord == aRecords[rec]
        read    == [s EXCEPT !.nRec = s.nRec + 1,
                             !.logFile = LogSkipped(s.logFile, verbose,
                                                    s.nRec + 1, aRecord)]
        amt     == aRecord.amount
        gid     == aRecord.groupID
        tot     == setdefault(s.repeatSum, gid, 0) + amt
        st      == emitStats(aRecord,
                             Append(setdefault(s.repeatDonations, gid, <<>>),
                                    amt),
                             tot, pct)
        seen    == Store(s.donors, aRecord.donorID,
                         setdefault(s.donors, aRecord.donorID, {})
                             \cup {aRecord.year})
    IN  IF s.pc # "loop" THEN s
        ELSE IF aRecord.tag = "ValueError" THEN [read EXCEPT !.pc = "raised"]
        ELSE IF aRecord.tag = "0" THEN read
        ELSE IF aRecord.tag = "None"
        THEN [read EXCEPT !.nInvalid = s.nInvalid + 1]
        ELSE IF ~isRepeat(aRecord, s.donors, strict)
        THEN [read EXCEPT !.donors = seen, !.nValid = s.nValid + 1]
        ELSE IF st.raises
        THEN [read EXCEPT
                 !.repeatDonations = Store(s.repeatDonations, gid, st.donations),
                 !.repeatSum = Store(s.repeatSum, gid, tot),
                 !.pc = "raised"]
        ELSE [read EXCEPT
                 !.repeatDonations = Store(s.repeatDonations, gid, st.donations),
                 !.repeatSum = Store(s.repeatSum, gid, tot),
                 !.outFile = Append(s.outFile, st.emit),
                 !.donors = seen,
                 !.nValid = s.nValid + 1]

\* The states of the run before the loop and after each of the rows.
RECURSIVE mainStates(_, _, _, _)
mainStates(records, pct, strict, verbose) ==
    IF Len(records) = 0 THEN <<mainStart(verbose)>>
    ELSE LET before == mainStates(SubSeq(records, 1, Len(records) - 1),
                                  pct, strict, verbose)
         IN  Append(before,
                    mainIterate(before[Len(before)], records[Len(records)],
                                pct, strict, verbose))

\* The state of the run after the last of the rows.
mainOn(records, pct, strict, verbose) ==
    LET states == mainStates(records, pct, strict, verbose)
    IN  states[Len(states)]

\* The fields of a run that are its results: all but the log file.
Results(s) ==
    [donors |-> s.donors, repeatDonations |-> s.repeatDonations,
     repeatSum |-> s.repeatSum, nRec |-> s.nRec, nValid |-> s.nValid,
     nInvalid |-> s.nInvalid, outFile |-> s.outFile]

\* The results of the run of the state machine.
ThisRun ==
    [donors |-> donors, repeatDonations |-> repeatDonations,
     repeatSum |-> repeatSum, nRec |-> nRec, nValid |-> nValid,
     nInvalid |-> nInvalid, outFile |-> outFile]

IsPrefix(q, r) == Len(q) <= Len(r) /\ SubSeq(r, 1, Len(q)) = q

(***************************************************************************)
(* C15.  The output written after the rows s is the output of the program  *)
(* on s, whatever was or will be read after them, and it is a prefix of    *)
(* the output after s followed by any further rows: every step of the run  *)
(* leaves the lines written where they are and as they are.                *)
(***************************************************************************)
C15_OutputOfThePrefix ==
    LET states == mainStates(consumed, percentile, strictRepeat, logVerbose)
    IN  \A k \in 0..Len(consumed) :
            /\ IsPrefix(states[k + 1].outFile, outFile)
            /\ k = Len(consumed) => states[k + 1].outFile = outFile

C15_OutputIsFinal ==
    []C15_OutputOfThePrefix /\ [][IsPrefix(outFile, outFile')]_vars

\* A second repeat donation to a group leaves the line of the first as it
\* was written, with count 1.
C15_Witness ==
    /\ consumed = <<RowA2015a, RowA2015b, RowA2015a>>
    /\ ~strictRepeat
    /\ percentile = 50
    /\ outFile = << Line(C00001, Zip11111, <<"2", "0", "1", "5">>, 20, 20, 1),
                    Line(C00001, Zip11111, <<"2", "0", "1", "5">>, 10, 30, 2) >>

(***************************************************************************)
(* C16.  moldRecord returns a valid record only for a date field of        *)
(* exactly 8 decimal digits MMDDYYYY that name a day of the calendar, and  *)
(* the year of a valid record, characters 4 to 8 of the date field, is     *)
(* then 4 decimal digits; a row of 21 fields whose date field is of any    *)
(* other length or shape is an invalid record.                             *)
(***************************************************************************)
C16_DateIsMMDDYYYY ==
    pc = "return" =>
        /\ ret.tag = "ValidRecord"
              => /\ IsCalendarDate8(Field(call, "TRANSACTION_DT"))
                 /\ Len(ret.year) = 4
                 /\ AllIn(ret.year, Digits)
        /\ (HasAllFields(call)
              /\ ~IsCalendarDate8(Field(call, "TRANSACTION_DT")))
              => ret.tag # "ValidRecord"

(***************************************************************************)
(* C17.  The results of a run do not depend on logVerbose: the lines       *)
(* written, nRec, nValid and nInvalid, donors, repeatDonations and         *)
(* repeatSum, and whether and where the run is ended by an error, are      *)
(* those of the run on the same rows, percentile and strictRepeat with the *)
(* other value of logVerbose.                                              *)
(***************************************************************************)
C17_ResultsIgnoreLogVerbose ==
    LET other == mainOn(consumed, percentile, strictRepeat, ~logVerbose)
    IN  /\ ThisRun = Results(other)
        /\ pc # "done" => pc = other.pc

\* A verbose run that has logged a blank line and a comment line beside a
\* repeat donation: its log differs from that of the quiet run.
C17_Witness ==
    /\ logVerbose
    /\ consumed = <<RowA2015a, RowBlank, RowA2015b, RowComment>>
    /\ percentile = 50
    /\ Len(logFile) = 4
    /\ logFile[3] = LogEntry(2, "blank line")
    /\ logFile[4] = LogEntry(4, "commented out")
    /\ Len(mainOn(consumed, percentile, strictRepeat, FALSE).logFile) = 3
    /\ nInvalid = 1
    /\ Len(outFile) = 1

(***************************************************************************)
(* C18.  Whenever the rows read have been processed to the end of their    *)
(* loop iteration, nRec is the number of rows read and nRec = nValid +     *)
(* nInvalid + the number of comment lines read; every such step adds one   *)
(* to nRec and to exactly one of the three tallies, and when the loop has  *)
(* ended normally nRec is the number of rows of the file.                  *)
(***************************************************************************)
CommentsRead ==
    Cardinality({i \in 1..Len(consumed) : IsCommentRow(consumed[i])})

C18_TalliesAddUp ==
    pc # "raised" =>
        /\ nRec = Len(consumed)
        /\ nRec = nValid + nInvalid + CommentsRead

C18_OneTallyPerRecord ==
    (Reads /\ pc' # "raised") =>
        \/ /\ nValid' = nValid + 1
           /\ nInvalid' = nInvalid
           /\ ~IsCommentRow(ReadRow)
        \/ /\ nValid' = nValid
           /\ nInvalid' = nInvalid + 1
           /\ ~IsCommentRow(ReadRow)
        \/ /\ nValid' = nValid
           /\ nInvalid' = nInvalid
           /\ IsCommentRow(ReadRow)

C18_CounterConservation ==
    []C18_TalliesAddUp /\ [][C18_OneTallyPerRecord]_vars

\* One row of each kind has been read and the file has ended.
C18_Witness ==
    /\ pc = "done"
    /\ consumed = <<RowA2015a, RowComment, RowShort, RowA2015b>>
    /\ nRec = 4
    /\ nValid = 2
    /\ nInvalid = 1
    /\ CommentsRead = 1

(***************************************************************************)
(* C19.  The run in strict mode and the run in default mode on the same    *)
(* rows and percentile.                                                    *)
(*   As claimed: after every row donors is the same in both runs, every    *)
(* row the strict run treats as a repeat donation the default run treats   *)
(* as one too, and the rows that write a line in the strict run are among  *)
(* those that write a line in the default run.                             *)
(*   As amended: that is so when the percentile is in (0, 100].  (With a   *)
(* percentile out of range the default run is ended by its first repeat    *)
(* donation, which need not be one in strict mode; the strict run reads    *)
(* on.)                                                                    *)
(***************************************************************************)
\* In the run with the states st, row k is treated as a repeat donation, and
\* row k writes a line.
RepeatIn(st, k) == st[k + 1].repeatDonations # st[k].repeatDonations

WritesIn(st, k) == st[k + 1].outFile # st[k].outFile

StrictRemovesRepeats ==
    LET strict  == mainStates(consumed, percentile, TRUE, logVerbose)
        default == mainStates(consumed, percentile, FALSE, logVerbose)
        this    == IF strictRepeat THEN strict ELSE default
    IN  /\ ThisRun = Results(this[Len(consumed) + 1])
        /\ \A k \in 1..Len(consumed) :
               /\ strict[k + 1].donors = default[k + 1].donors
               /\ RepeatIn(strict, k) => RepeatIn(default, k)
               /\ WritesIn(strict, k) => WritesIn(default, k)

C19_StrictRemovesRepeatsAsClaimed == StrictRemovesRepeats

C19_StrictRemovesRepeats == PercentileOK => StrictRemovesRepeats

\* The strict run writes for the donation of 2016 and for the one of 2015
\* after it; the default run writes for the second donation of 2015 as well.
C19_Witness ==
    /\ strictRepeat
    /\ percentile = 50
    /\ consumed = <<RowA2015a, RowA2015b, RowA2016, RowA2015a>>
    /\ Len(outFile) = 2
    /\ LET default == mainOn(consumed, percentile, FALSE, logVerbose)
       IN  /\ Len(default.outFile) = 3
           /\ default.donors = donors

(***************************************************************************)
(* C20.  With a percentile in 1..100 the look-up of findPercentileValue is *)
(* always within the list: no run is ended by an error of emitStats, every *)
(* group list is non-empty and the index computed for it lies in 0..n-1;   *)
(* the percentile amount of every line is one of the amounts of the list   *)
(* of its group, and every line has count >= 1 and running sum >=          *)
(* percentile amount >= 1.                                                 *)
(***************************************************************************)
C20_LookupInRange ==
    /\ pc # "raised"
    /\ \A g \in DOMAIN repeatDonations :
           LET n == Len(repeatDonations[g])
           IN  /\ n >= 1
               /\ PercentileIndex(percentile, n) \in 0..(n - 1)
    /\ \A k \in 1..Len(outFile) :
           LET line == outFile[k]
               g    == groupID(line.rcpt, line.zipCode, line.year)
           IN  /\ g \in DOMAIN repeatDonations
               /\ \E i \in 1..Len(repeatDonations[g]) :
                      repeatDonations[g][i] = line.pctl
               /\ line.cnt >= 1
               /\ line.tot >= line.pctl
               /\ line.pctl >= 1

\* Percentile 28 and a list of 25 amounts, seven of 10 and eighteen of 20.
C20_Witness ==
    /\ percentile = 28
    /\ nRec = 26
    /\ pc = "loop"
    /\ Len(outFile) = 25
    /\ outFile[25].cnt = 25
    /\ outFile[25].tot = 430
    /\ outFile[25].pctl = 20

=============================================================================
